---- MODULE Spec2Model ----
(***************************************************************************)
(* Legal document analyzer (src/legal_analyzer/agent.py): the four tool    *)
(* functions of the sequential workflow (extract_document_text,            *)
(* identify_key_clauses, analyze_risks_and_obligations,                    *)
(* generate_analysis_report) and compare_two_documents.                    *)
(*                                                                         *)
(* A text is a sequence of Unicode code points, so that strip(), the       *)
(* regular expression substitutions, lower() and the substring tests of    *)
(* the code are computed character by character.                           *)
(***************************************************************************)
EXTENDS Integers, Sequences, FiniteSets, TLC

VARIABLES
    request,            \* what the user handed to root_agent
    pc,                 \* which tool call comes next
    now,                \* the wall clock, read by datetime.now()
    extraction_result,  \* output_key of extractor_agent
    clause_result,      \* output_key of identifier_agent
    risk_result,        \* output_key of risk_agent
    final_report,       \* output_key of generator_agent
    comparison_report   \* what compare_two_documents returned

vars == <<request, pc, now, extraction_result, clause_result, risk_result,
          final_report, comparison_report>>

(***************************************************************************)
(* Bounds of the model.                                                    *)
(***************************************************************************)
MaxClock == 1
Slack == 2
MaxDates == 1
MaxFinancialTerms == 1

(***************************************************************************)
(* Let(value, Body) is Body(value) with value computed once, as a Python   *)
(* assignment computes its right-hand side once.                           *)
(***************************************************************************)
Let(value, Body(_)) == CHOOSE r \in {Body(v) : v \in {value}} : TRUE

Min(S) == CHOOSE x \in S : \A y \in S : x <= y

Max(S) == CHOOSE x \in S : \A y \in S : x >= y

(***************************************************************************)
(* Characters.                                                             *)
(***************************************************************************)
\* chr(32) .. chr(95) and chr(97) .. chr(126), in order (a string of this
\* module cannot hold chr(96), which no text of the model contains)
PrintableLow == " !\"#$%&'()*+,-./0123456789:;<=>?@ABCDEFGHIJKLMNOPQRSTUVWXYZ[\\]^_"

PrintableHigh == "abcdefghijklmnopqrstuvwxyz{|}~"

\* ord(ch) of a one-character string
Ord(ch) ==
    IF \E k \in 1..Len(PrintableLow) : SubSeq(PrintableLow, k, k) = ch
    THEN 31 + CHOOSE k \in 1..Len(PrintableLow) : SubSeq(PrintableLow, k, k) = ch
    ELSE 96 + CHOOSE k \in 1..Len(PrintableHigh) : SubSeq(PrintableHigh, k, k) = ch

\* a string literal of this module as the text it denotes
Codes(s) == [i \in 1..Len(s) |-> Ord(SubSeq(s, i, i))]

NUL == 0
US == 31
LF == 10
SPACE == 32

LetterX == Ord("x")

COMMA == 44
DOT == 46
QUOTE == 39
LBRACKET == 91
RBRACKET == 93

\* str.isspace() / the regular expression class \s, for code points below 256
IsSpace(c) == c \in (9..13) \cup (28..32) \cup {133, 160}

\* the regular expression class [\x00-\x1f\x7f-\x9f]
IsControl(c) == c \in (0..31) \cup (127..159)

\* str.lower() of one character (ASCII letters; the texts of the model hold no other cased character)
LowerChar(c) == IF c \in 65..90 THEN c + 32 ELSE c

lower(text) == Let(text, LAMBDA t : [i \in 1..Len(t) |-> LowerChar(t[i])])

\* needle in text
Contains(text, needle) ==
    \E t \in {text} :
        \E i \in 1..(Len(t) - Len(needle) + 1) : SubSeq(t, i, i + Len(needle) - 1) = needle

\* str.strip(): what lies between the first and the last non-whitespace character
strip(text) ==
    Let(text, LAMBDA t :
    Let({i \in 1..Len(t) : ~IsSpace(t[i])}, LAMBDA solid :
        IF solid = {} THEN <<>> ELSE SubSeq(t, Min(solid), Max(solid))))

\* re.sub(r'\s+', ' ', text): every maximal run of whitespace becomes one space
sub_whitespace(text) ==
    Let(text, LAMBDA t :
    Let(SelectSeq([i \in 1..Len(t) |-> i],
                  LAMBDA i : ~IsSpace(t[i]) \/ i = 1 \/ ~IsSpace(t[i - 1])), LAMBDA kept :
        [k \in 1..Len(kept) |-> IF IsSpace(t[kept[k]]) THEN SPACE ELSE t[kept[k]]]))

\* re.sub(r'[\x00-\x1f\x7f-\x9f]', '', text)
sub_control(text) == SelectSeq(text, LAMBDA c : ~IsControl(c))

\* len(text.split()): the number of maximal runs of non-whitespace
split_count(text) ==
    Let(text, LAMBDA t :
        Cardinality({i \in 1..Len(t) : ~IsSpace(t[i]) /\ (i = 1 \/ IsSpace(t[i - 1]))}))

Get(d, key, default) == IF key \in DOMAIN d THEN d[key] ELSE default

(***************************************************************************)
(* PDF processing.  The bytes of a PDF are modelled by what PdfReader makes *)
(* of them: [readable |-> TRUE, pages |-> the text of each page], or        *)
(* [readable |-> FALSE, error |-> str(e)] when PdfReader or extract_text    *)
(* raises.                                                                  *)
(***************************************************************************)
RECURSIVE join_pages(_)
join_pages(pages) ==
    IF pages = <<>> THEN <<>>
    ELSE Head(pages) \o <<LF>> \o join_pages(Tail(pages))

ErrorPrefix == Codes("Error extracting PDF: ")

extract_text_from_pdf(pdf_content) ==
    IF pdf_content.readable
    THEN strip(join_pages(pdf_content.pages))
    ELSE ErrorPrefix \o pdf_content.error

EndsWith(text, suffix) ==
    /\ Len(text) >= Len(suffix)
    /\ SubSeq(text, Len(text) - Len(suffix) + 1, Len(text)) = suffix

(***************************************************************************)
(* A tool_context is [present, list_raises, artifacts, load_raises,         *)
(* has_inline_data, data]: whether one was passed, whether list_artifacts() *)
(* raises, the artifact names, whether load_artifact() raises, whether the  *)
(* loaded artifact is an object with inline_data, and its bytes.            *)
(* The result is <<extracted_text, source_type>> after the PDF block.       *)
(***************************************************************************)
PdfSuffix == Codes(".pdf")

pdf_block(tool_context) ==
    IF ~tool_context.present \/ tool_context.list_raises
    THEN <<<<>>, "text">>
    ELSE LET pdf_files == SelectSeq(tool_context.artifacts,
                                    LAMBDA f : EndsWith(lower(f), PdfSuffix))
         IN  IF pdf_files = <<>> \/ tool_context.load_raises
                \/ ~tool_context.has_inline_data
             THEN <<<<>>, "text">>
             ELSE <<extract_text_from_pdf(tool_context.data), "pdf">>

MinLength == 50

\* the result of a text that passed the validation
extraction_success(cleaned, source_type, clock) ==
    [status |-> "success",
     message |-> IF source_type = "pdf"
                 THEN "Document extracted and cleaned successfully from PDF"
                 ELSE "Document extracted and cleaned successfully from TEXT",
     cleaned_text |-> cleaned,
     word_count |-> split_count(cleaned),
     char_count |-> Len(cleaned),
     source_type |-> source_type,
     extracted_at |-> clock]

\* the text to validate and its source_type: the PDF's text, else document_text
choose_source(document_text, pdf) ==
    IF pdf[1] = <<>> /\ document_text # <<>> THEN <<document_text, "text">> ELSE pdf

extract_document_text(document_text, tool_context, clock) ==
    Let(choose_source(document_text, pdf_block(tool_context)), LAMBDA chosen :
    Let(strip(chosen[1]), LAMBDA stripped :
        IF chosen[1] = <<>> \/ Len(stripped) < MinLength
        THEN [status |-> "error",
              message |-> "Document text is too short or empty. Please provide a valid legal document (text or PDF).",
              cleaned_text |-> <<>>,
              word_count |-> 0,
              char_count |-> 0,
              source_type |-> chosen[2]]
        ELSE Let(sub_control(sub_whitespace(stripped)), LAMBDA cleaned :
                 extraction_success(cleaned, chosen[2], clock))))

(***************************************************************************)
(* Documents of the model.  party_matches, date_matches and amount_matches *)
(* are what re.findall returns on the text for the three party_patterns,   *)
(* the three date_patterns (with the pattern's date_type) and the three    *)
(* amount_patterns, pattern after pattern, before any post-processing.     *)
(***************************************************************************)
DocScenario ==
    [text |-> "This Agreement is between CloudTech Solutions Inc. and Global Retail Enterprises LLC. Total fee of $450,000 payable within 15 business days. This Agreement includes a Limitation of Liability clause and a Confidentiality clause. Effective Date: January 1, 2024.",
     party_matches |-> <<"CloudTech Solutions Inc.">>,
     date_matches |-> <<<<"January 1, 2024", "date">>, <<"January 1, 2024", "deadline">>>>,
     amount_matches |-> <<"$450,000">>]

DocComplete ==
    [text |-> "Service Agreement by and between Acme Corp and Beta LLC. Provider: Acme Corp. Payment terms: fee: $5,000 due 01/02/2024. Termination on notice. Liability is capped. Disputes go to arbitration. Confidential.",
     party_matches |-> <<"Acme Corp", "Acme Corp">>,
     date_matches |-> <<<<"01/02/2024", "date">>>>,
     amount_matches |-> <<"$5,000", "fee: $5,000">>]

DocNoParty ==
    [text |-> "The undersigned accept these terms. Termination requires notice. Liability is limited. Arbitration applies. Fee: $100 due 01/02/2024.",
     party_matches |-> <<>>,
     date_matches |-> <<<<"01/02/2024", "date">>>>,
     amount_matches |-> <<"$100", "Fee: $100">>]

DocSentinelName ==
    [text |-> "This Agreement is between Not Clearly Identified Holdings and Beta LLC. Total fee of $450,000. Termination, liability and arbitration apply. Due 01/02/2024.",
     party_matches |-> <<"Not Clearly Identified Holdings">>,
     date_matches |-> <<<<"01/02/2024", "date">>>>,
     amount_matches |-> <<"$450,000">>]

DocBare ==
    [text |-> "Lorem ipsum between AB and CD dolor sit amet consectetur adipiscing elit.",
     party_matches |-> <<"AB">>,
     date_matches |-> <<>>,
     amount_matches |-> <<>>]

DocManyParties ==
    [text |-> "Lease. Landlord: North Estates. Tenant: Ann Lee. Partner: Bo Chen. Vendor: Cy Dow. Rent: $900. Warranty and copyright survive. Cancellation by email.",
     party_matches |-> <<"North Estates", "Ann Lee", "Bo Chen", "Cy Dow">>,
     date_matches |-> <<>>,
     amount_matches |-> <<"$900", "Rent: $900">>]

DocEmployment ==
    [text |-> "Employment contract between Delta Works and the employee. Salary: $70,000. Non-compete and indemnification apply. Mediation first. Start date: March 3, 2025.",
     party_matches |-> <<"Delta Works">>,
     date_matches |-> <<<<"March 3, 2025", "date">>, <<"March 3, 2025", "deadline">>>>,
     amount_matches |-> <<"$70,000", "Salary: $70,000">>]

Library == <<DocScenario, DocComplete, DocNoParty, DocSentinelName, DocBare, DocManyParties, DocEmployment>>

SeqMap(Op(_), seq) == [i \in 1..Len(seq) |-> Op(seq[i])]

\* the library with its strings as texts
LibraryCodes ==
    [i \in 1..Len(Library) |->
        [text |-> Codes(Library[i].text),
         party_matches |-> SeqMap(Codes, Library[i].party_matches),
         date_matches |-> SeqMap(LAMBDA m : <<Codes(m[1]), m[2]>>, Library[i].date_matches),
         amount_matches |-> SeqMap(Codes, Library[i].amount_matches)]]

NoMatches == [party_matches |-> <<>>, date_matches |-> <<>>, amount_matches |-> <<>>]

\* re.findall of the nine patterns on text: a library document's table, and
\* no match on the other texts of the model, which hold none of the words,
\* digits or currency signs the patterns need
findall(text) ==
    LET hits == {i \in 1..Len(LibraryCodes) : LibraryCodes[i].text = text}
    IN  IF hits = {} THEN NoMatches ELSE LibraryCodes[CHOOSE i \in hits : TRUE]

\* str.rstrip('.,')
RECURSIVE rstrip_punct(_)
rstrip_punct(text) ==
    IF text # <<>> /\ text[Len(text)] \in {DOT, COMMA}
    THEN rstrip_punct(SubSeq(text, 1, Len(text) - 1))
    ELSE text

InSeq(x, seq) == \E i \in 1..Len(seq) : seq[i] = x

\* the loop over the party matches: strip, drop short names and repeats
RECURSIVE collect_parties(_, _)
collect_parties(matches, parties) ==
    IF matches = <<>> THEN parties
    ELSE LET clean_party == rstrip_punct(strip(Head(matches)))
         IN  collect_parties(Tail(matches),
                 IF clean_party # <<>> /\ Len(clean_party) > 2 /\ ~InSeq(clean_party, parties)
                 THEN Append(parties, clean_party)
                 ELSE parties)

clause_keywords ==
    << [type |-> "Termination", keywords |-> <<"termination", "terminate", "cancellation", "cancel agreement">>],
       [type |-> "Liability", keywords |-> <<"liability", "indemnification", "indemnify", "hold harmless">>],
       [type |-> "Confidentiality", keywords |-> <<"confidential", "non-disclosure", "proprietary information">>],
       [type |-> "Payment", keywords |-> <<"payment terms", "invoice", "compensation", "consideration">>],
       [type |-> "Intellectual Property", keywords |-> <<"intellectual property", "IP rights", "copyright", "trademark">>],
       [type |-> "Dispute Resolution", keywords |-> <<"arbitration", "mediation", "dispute resolution", "jurisdiction">>],
       [type |-> "Force Majeure", keywords |-> <<"force majeure", "acts of god", "unforeseeable circumstances">>],
       [type |-> "Non-Compete", keywords |-> <<"non-compete", "non-competition", "restrictive covenant">>],
       [type |-> "Warranty", keywords |-> <<"warranty", "warranties", "represent and warrant">>] >>

\* keyword.lower() of every keyword
KeywordCodes ==
    [i \in 1..Len(clause_keywords) |->
        SeqMap(LAMBDA k : lower(Codes(k)), clause_keywords[i].keywords)]

\* first_keyword taking the last keyword that occurs
first_keyword_last(low, i) ==
    Let({k \in 1..Len(KeywordCodes[i]) : Contains(low, KeywordCodes[i][k])}, LAMBDA found :
        IF found = {} THEN 0 ELSE Max(found))

\* the index of the first keyword of clause type i that occurs in low, 0 if none does
first_keyword(low, i) ==
    Let({k \in 1..Len(KeywordCodes[i]) : Contains(low, KeywordCodes[i][k])}, LAMBDA found :
        IF found = {} THEN 0 ELSE Min(found))

\* the loop over clause_keywords: one entry per type, for its first keyword found
identify_clauses(low) ==
    Let([i \in 1..Len(clause_keywords) |-> first_keyword(low, i)], LAMBDA firsts :
        SeqMap(LAMBDA i : [type |-> clause_keywords[i].type,
                           keyword |-> clause_keywords[i].keywords[firsts[i]],
                           present |-> TRUE],
               SelectSeq([i \in 1..Len(clause_keywords) |-> i], LAMBDA i : firsts[i] # 0)))

DocTypeWords ==
    [w \in {"employment", "employee", "service", "provider", "purchase", "sale", "lease",
            "rent", "non-disclosure", "confidentiality", "partnership", "partner",
            "license", "software"} |-> Codes(w)]

\* determine_doc_type with the lease rule tested before the purchase rule
determine_doc_type_lease_first(low) ==
    LET has(w) == Contains(low, DocTypeWords[w])
    IN  IF has("employment") \/ has("employee") THEN "Employment Agreement"
        ELSE IF has("service") /\ has("provider") THEN "Service Agreement"
        ELSE IF has("lease") \/ has("rent") THEN "Lease Agreement"
        ELSE IF has("purchase") \/ has("sale") THEN "Purchase Agreement"
        ELSE IF has("non-disclosure") \/ has("confidentiality") THEN "NDA (Non-Disclosure Agreement)"
        ELSE IF has("partnership") \/ has("partner") THEN "Partnership Agreement"
        ELSE IF has("license") /\ has("software") THEN "Software License Agreement"
        ELSE "General Contract/Agreement"

determine_doc_type(low) ==
    LET has(w) == Contains(low, DocTypeWords[w])
    IN  IF has("employment") \/ has("employee") THEN "Employment Agreement"
        ELSE IF has("service") /\ has("provider") THEN "Service Agreement"
        ELSE IF has("purchase") \/ has("sale") THEN "Purchase Agreement"
        ELSE IF has("lease") \/ has("rent") THEN "Lease Agreement"
        ELSE IF has("non-disclosure") \/ has("confidentiality") THEN "NDA (Non-Disclosure Agreement)"
        ELSE IF has("partnership") \/ has("partner") THEN "Partnership Agreement"
        ELSE IF has("license") /\ has("software") THEN "Software License Agreement"
        ELSE "General Contract/Agreement"

Sentinel == Codes("Party information not clearly identified")

MaxParties == 5
MaxListed == 10

Take(seq, n) == SubSeq(seq, 1, IF Len(seq) < n THEN Len(seq) ELSE n)

\* the result for a non-empty text, its lower() and the regular expression matches m
clause_success(low, m, parties, clock) ==
    [status |-> "success",
     message |-> "Key clauses identified successfully",
     document_type |-> determine_doc_type(low),
     parties |-> IF Len(parties) > 0 THEN Take(parties, MaxParties) ELSE <<Sentinel>>,
     dates |-> Take(SeqMap(LAMBDA d : [date |-> strip(d[1]), type |-> d[2],
                                       context |-> "identified in document"],
                           m.date_matches),
                    MaxListed),
     financial_terms |-> Take(SeqMap(LAMBDA f : [amount |-> strip(f),
                                                 context |-> "financial term identified"],
                                     m.amount_matches),
                              MaxListed),
     key_clauses |-> identify_clauses(low),
     total_parties |-> Len(parties),
     total_dates |-> Len(m.date_matches),
     total_financial_terms |-> Len(m.amount_matches),
     analyzed_at |-> clock]


\* identify_key_clauses answering an upstream error with an error of its own
identify_key_clauses_revalidating(extraction, clock) ==
    IF Get(extraction, "status", "") = "error" \/ Get(extraction, "cleaned_text", <<>>) = <<>>
    THEN [status |-> "error", message |-> "No text available for clause identification"]
    ELSE Let(Get(extraction, "cleaned_text", <<>>), LAMBDA text :
         Let(findall(text), LAMBDA m :
             clause_success(lower(text), m, collect_parties(m.party_matches, <<>>), clock)))

identify_key_clauses(extraction, clock) ==
    IF Get(extraction, "status", "") = "error" THEN extraction
    ELSE Let(Get(extraction, "cleaned_text", <<>>), LAMBDA text :
             IF text = <<>>
             THEN [status |-> "error",
                   message |-> "No text available for clause identification"]
             ELSE Let(lower(text), LAMBDA low :
                  Let(findall(text), LAMBDA m :
                  Let(collect_parties(m.party_matches, <<>>), LAMBDA parties :
                      clause_success(low, m, parties, clock)))))

(***************************************************************************)
(* Risk analysis.  A text built with an f-string from a list of clause     *)
(* types is [text |-> the fixed words, clauses |-> the list].              *)
(***************************************************************************)
Phrase(text) == [text |-> text, clauses |-> <<>>]

\* str(parties) of a list of names without quotes or backslashes
RECURSIVE join_reprs(_)
join_reprs(parties) ==
    IF parties = <<>> THEN <<>>
    ELSE <<QUOTE>> \o Head(parties) \o <<QUOTE>>
         \o (IF Len(parties) > 1 THEN <<COMMA, SPACE>> ELSE <<>>)
         \o join_reprs(Tail(parties))

str_list(parties) == <<LBRACKET>> \o join_reprs(parties) \o <<RBRACKET>>

ClauseTypesOf(key_clauses) == {key_clauses[i].type : i \in 1..Len(key_clauses)}

MaxObligationParties == 3

party_obligations(party, key_clauses) ==
    LET present == ClauseTypesOf(key_clauses)
        listed ==
            (IF "Payment" \in present
             THEN <<"Financial obligations as per payment terms specified in the agreement">>
             ELSE <<>>)
            \o (IF "Confidentiality" \in present
                THEN <<"Maintain confidentiality of proprietary information">>
                ELSE <<>>)
            \o (IF "Termination" \in present
                THEN <<"Comply with termination notice requirements and procedures">>
                ELSE <<>>)
    IN  [party |-> party,
         obligations |-> IF Len(listed) = 0
                         THEN <<"Obligations to be reviewed in detail within the document">>
                         ELSE listed]

analyze_obligations(parties, key_clauses) ==
    SeqMap(LAMBDA party : party_obligations(party, key_clauses),
           Take(parties, MaxObligationParties))

\* critical_clauses without Dispute Resolution
critical_clauses_two == <<"Termination", "Liability">>

critical_clauses == <<"Termination", "Liability", "Dispute Resolution">>

WeightMissingCritical == 3
WeightUnclearParties == 3
WeightNoFinancialTerms == 2
WeightNoDates == 2
WeightNoLiability == 3
MaxRiskScore == 10
HighThreshold == 7
MediumThreshold == 4

SentinelWords == Codes("not clearly identified")

\* Risk 2: Unclear parties
unclear_parties(parties) ==
    Len(parties) = 0 \/ Contains(lower(str_list(parties)), SentinelWords)

\* the five risk rules: <<risks, risk_score>> before the cap
identify_risks(key_clauses, parties, financial_terms, dates) ==
    LET present_critical == ClauseTypesOf(key_clauses)
        missing_clauses == SelectSeq(critical_clauses, LAMBDA c : c \notin present_critical)
        r1 == missing_clauses # <<>>
        r2 == unclear_parties(parties)
        r3 == Len(financial_terms) = 0
        r4 == Len(dates) = 0
        r5 == "Liability" \notin present_critical
        risks ==
            (IF r1 THEN <<[type |-> "Missing Critical Clauses", severity |-> "High",
                           description |-> [text |-> "The following critical clauses are missing",
                                            clauses |-> missing_clauses],
                           impact |-> "May lead to disputes or unclear terms in case of conflicts"]>>
             ELSE <<>>)
            \o (IF r2 THEN <<[type |-> "Unclear Party Identification", severity |-> "High",
                              description |-> Phrase("Parties to the agreement are not clearly identified"),
                              impact |-> "May cause enforceability issues"]>>
                ELSE <<>>)
            \o (IF r3 THEN <<[type |-> "No Financial Terms", severity |-> "Medium",
                              description |-> Phrase("No clear financial terms or amounts identified"),
                              impact |-> "May lead to payment disputes"]>>
                ELSE <<>>)
            \o (IF r4 THEN <<[type |-> "No Dates or Deadlines", severity |-> "Medium",
                              description |-> Phrase("No specific dates or deadlines identified"),
                              impact |-> "Unclear timeline for obligations and deliverables"]>>
                ELSE <<>>)
            \o (IF r5 THEN <<[type |-> "No Liability Clause", severity |-> "High",
                              description |-> Phrase("No indemnification or liability limitations identified"),
                              impact |-> "Unlimited liability exposure"]>>
                ELSE <<>>)
        risk_score ==
            (IF r1 THEN WeightMissingCritical ELSE 0)
            + (IF r2 THEN WeightUnclearParties ELSE 0)
            + (IF r3 THEN WeightNoFinancialTerms ELSE 0)
            + (IF r4 THEN WeightNoDates ELSE 0)
            + (IF r5 THEN WeightNoLiability ELSE 0)
    IN  <<risks, risk_score>>


\* cap_score without the cap
cap_score_uncapped(risk_score) == risk_score

\* Cap risk score at 10
cap_score(risk_score) == IF risk_score < MaxRiskScore THEN risk_score ELSE MaxRiskScore


\* risk_level_of with > for >= at the High threshold
risk_level_of_strict(risk_score) ==
    IF risk_score > HighThreshold THEN "High"
    ELSE IF risk_score >= MediumThreshold THEN "Medium"
    ELSE "Low"

risk_level_of(risk_score) ==
    IF risk_score >= HighThreshold THEN "High"
    ELSE IF risk_score >= MediumThreshold THEN "Medium"
    ELSE "Low"

\* generate_recommendations giving the party advice for two parties as well
generate_recommendations_two_parties(missing_clauses, risk_score, parties, financial_terms) ==
    (IF missing_clauses # <<>>
     THEN <<[text |-> "Consider adding the following clauses", clauses |-> missing_clauses]>>
     ELSE <<>>)
    \o <<Phrase(IF risk_score >= HighThreshold
                THEN "High risk document - Strongly recommend legal review before signing"
                ELSE IF risk_score >= MediumThreshold
                THEN "Medium risk - Review and clarify identified concerns"
                ELSE "Low risk - Standard review recommended")>>
    \o (IF Len(parties) <= 2
        THEN <<Phrase("Clearly identify all parties with full legal names and addresses")>>
        ELSE <<>>)
    \o (IF Len(financial_terms) = 0
        THEN <<Phrase("Ensure all payment terms, amounts, and schedules are clearly specified")>>
        ELSE <<>>)
    \o <<Phrase("Always have legal counsel review contracts before execution")>>

generate_recommendations(missing_clauses, risk_score, parties, financial_terms) ==
    (IF missing_clauses # <<>>
     THEN <<[text |-> "Consider adding the following clauses", clauses |-> missing_clauses]>>
     ELSE <<>>)
    \o <<Phrase(IF risk_score >= HighThreshold
                THEN "High risk document - Strongly recommend legal review before signing"
                ELSE IF risk_score >= MediumThreshold
                THEN "Medium risk - Review and clarify identified concerns"
                ELSE "Low risk - Standard review recommended")>>
    \o (IF Len(parties) < 2
        THEN <<Phrase("Clearly identify all parties with full legal names and addresses")>>
        ELSE <<>>)
    \o (IF Len(financial_terms) = 0
        THEN <<Phrase("Ensure all payment terms, amounts, and schedules are clearly specified")>>
        ELSE <<>>)
    \o <<Phrase("Always have legal counsel review contracts before execution")>>

\* the result for the risks found and the capped score
risk_success(clause, found, risk_score, missing_clauses, clock) ==
    [status |-> "success",
     message |-> "Risk analysis completed successfully",
     obligations |-> analyze_obligations(Get(clause, "parties", <<>>),
                                         Get(clause, "key_clauses", <<>>)),
     risks |-> IF Len(found[1]) = 0
               THEN <<[type |-> "Low Risk", severity |-> "Low",
                       description |-> Phrase("Document appears to have standard clauses"),
                       impact |-> "Minimal immediate concerns identified"]>>
               ELSE found[1],
     missing_clauses |-> missing_clauses,
     risk_score |-> risk_score,
     risk_level |-> risk_level_of(risk_score),
     recommendations |-> generate_recommendations(missing_clauses, risk_score,
                                                  Get(clause, "parties", <<>>),
                                                  Get(clause, "financial_terms", <<>>)),
     analyzed_at |-> clock]

analyze_risks_and_obligations(clause, clock) ==
    IF Get(clause, "status", "") = "error" THEN clause
    ELSE Let(identify_risks(Get(clause, "key_clauses", <<>>), Get(clause, "parties", <<>>),
                            Get(clause, "financial_terms", <<>>), Get(clause, "dates", <<>>)),
             LAMBDA found :
                 risk_success(clause, found, cap_score(found[2]),
                              SelectSeq(critical_clauses,
                                        LAMBDA c : c \notin ClauseTypesOf(Get(clause, "key_clauses", <<>>))),
                              clock))

(***************************************************************************)
(* Reports.  A report is the sequence of its lines; a line is a record     *)
(* [line |-> its fixed words, ...] with the values substituted into it.    *)
(* Separator lines and blank lines are left out.                           *)
(***************************************************************************)
Numbered(Op(_, _), seq) == [i \in 1..Len(seq) |-> Op(i, seq[i])]

generate_analysis_report(risk, clock) ==
    IF Get(risk, "status", "") = "error"
    THEN <<[line |-> "Error", message |-> Get(risk, "message", "Unable to generate report")]>>
    ELSE LET obligations == Get(risk, "obligations", <<>>)
             risks == Get(risk, "risks", <<>>)
             risk_score == Get(risk, "risk_score", 0)
             risk_level == Get(risk, "risk_level", "Unknown")
             recommendations == Get(risk, "recommendations", <<>>)
         IN  <<[line |-> "LEGAL DOCUMENT ANALYSIS REPORT"],
               [line |-> "EXECUTIVE SUMMARY"],
               [line |-> "Risk Level", risk_level |-> risk_level],
               [line |-> "Risk Score", risk_score |-> risk_score],
               [line |-> "Analysis Date", date |-> clock],
               [line |-> "PARTY OBLIGATIONS"]>>
             \o (IF Len(obligations) > 0
                 THEN Numbered(LAMBDA idx, o : [line |-> "obligation", idx |-> idx,
                                                party |-> o.party,
                                                obligations |-> o.obligations],
                               obligations)
                 ELSE <<[line |-> "No specific obligations identified."]>>)
             \o <<[line |-> "IDENTIFIED RISKS"]>>
             \o (IF Len(risks) > 0
                 THEN Numbered(LAMBDA idx, r : [line |-> "risk", idx |-> idx, type |-> r.type,
                                                severity |-> r.severity,
                                                description |-> r.description,
                                                impact |-> r.impact],
                               risks)
                 ELSE <<[line |-> "No significant risks identified."]>>)
             \o <<[line |-> "RECOMMENDATIONS"]>>
             \o (IF Len(recommendations) > 0
                 THEN Numbered(LAMBDA idx, rec : [line |-> "recommendation", idx |-> idx,
                                                  rec |-> rec],
                               recommendations)
                 ELSE <<[line |-> "No specific recommendations at this time."]>>)
             \o <<[line |-> "This is an automated analysis. Please consult with legal counsel for professional advice before making any decisions."]>>

NoToolContext ==
    [present |-> FALSE, list_raises |-> FALSE, artifacts |-> <<>>, load_raises |-> FALSE,
     has_inline_data |-> FALSE, data |-> [readable |-> TRUE, pages |-> <<>>]]

ReportLimit == 3

\* risk_comparison with the first test not strict
risk_comparison_nonstrict(risk_score_a, risk_score_b) ==
    IF risk_score_a <= risk_score_b
    THEN <<[line |-> "Document A has LOWER risk", score |-> risk_score_a,
            other |-> risk_score_b, difference |-> risk_score_b - risk_score_a]>>
    ELSE <<[line |-> "Document B has LOWER risk", score |-> risk_score_b,
            other |-> risk_score_a, difference |-> risk_score_a - risk_score_b]>>

\* clause_comparison listing every clause of Document B as only in B
clause_comparison_one_sided(clauses_a, clauses_b) ==
    <<[line |-> "Clauses in BOTH documents", clauses |-> clauses_a \cap clauses_b],
      [line |-> "Clauses ONLY in Document A", clauses |-> clauses_a \ clauses_b],
      [line |-> "Clauses ONLY in Document B", clauses |-> clauses_b]>>

\* the RISK LEVEL COMPARISON section
risk_comparison(risk_score_a, risk_score_b) ==
    IF risk_score_a < risk_score_b
    THEN <<[line |-> "Document A has LOWER risk", score |-> risk_score_a,
            other |-> risk_score_b, difference |-> risk_score_b - risk_score_a]>>
    ELSE IF risk_score_a > risk_score_b
    THEN <<[line |-> "Document B has LOWER risk", score |-> risk_score_b,
            other |-> risk_score_a, difference |-> risk_score_a - risk_score_b]>>
    ELSE <<[line |-> "Both documents have EQUAL risk", score |-> risk_score_a]>>

\* the KEY CLAUSES COMPARISON section
clause_comparison(clauses_a, clauses_b) ==
    <<[line |-> "Clauses in BOTH documents", clauses |-> clauses_a \cap clauses_b],
      [line |-> "Clauses ONLY in Document A", clauses |-> clauses_a \ clauses_b],
      [line |-> "Clauses ONLY in Document B", clauses |-> clauses_b \ clauses_a]>>

\* the COMPARATIVE RECOMMENDATIONS section
comparative_recommendations(risk_score_a, risk_score_b, only_in_a, only_in_b, n_fin_a, n_fin_b) ==
    (IF risk_score_a < risk_score_b
     THEN <<[line |-> "1. Document A appears to be the better option from a risk perspective"],
            [line |-> "2. Document B has more risk points", points |-> risk_score_b - risk_score_a]>>
     ELSE IF risk_score_a > risk_score_b
     THEN <<[line |-> "1. Document B appears to be the better option from a risk perspective"],
            [line |-> "2. Document A has more risk points", points |-> risk_score_a - risk_score_b]>>
     ELSE <<[line |-> "1. Both documents have similar risk profiles"]>>)
    \o (IF only_in_a # {} /\ only_in_b = {}
        THEN <<[line |-> "3. Document A has more comprehensive clause coverage"]>>
        ELSE IF only_in_b # {} /\ only_in_a = {}
        THEN <<[line |-> "3. Document B has more comprehensive clause coverage"]>>
        ELSE <<>>)
    \o (IF n_fin_a > n_fin_b
        THEN <<[line |-> "4. Document A has more detailed financial terms"]>>
        ELSE IF n_fin_b > n_fin_a
        THEN <<[line |-> "4. Document B has more detailed financial terms"]>>
        ELSE <<>>)
    \o <<[line |-> "5. Always consult with legal counsel before choosing between contracts"]>>

comparison_table(extraction_a, clause_a, risk_a, extraction_b, clause_b, risk_b) ==
    <<[line |-> "Document Type:", a |-> Get(clause_a, "document_type", "Unknown"),
                                  b |-> Get(clause_b, "document_type", "Unknown")],
      [line |-> "Risk Level:", a |-> Get(risk_a, "risk_level", "Unknown"),
                               b |-> Get(risk_b, "risk_level", "Unknown")],
      [line |-> "Risk Score:", a |-> Get(risk_a, "risk_score", 0),
                               b |-> Get(risk_b, "risk_score", 0)],
      [line |-> "Word Count:", a |-> Get(extraction_a, "word_count", 0),
                               b |-> Get(extraction_b, "word_count", 0)],
      [line |-> "Number of Parties:", a |-> Len(Get(clause_a, "parties", <<>>)),
                                      b |-> Len(Get(clause_b, "parties", <<>>))]>>

comparison_body(extraction_a, clause_a, risk_a, extraction_b, clause_b, risk_b) ==
    LET risk_score_a == Get(risk_a, "risk_score", 0)
        risk_score_b == Get(risk_b, "risk_score", 0)
        financial_a == Get(clause_a, "financial_terms", <<>>)
        financial_b == Get(clause_b, "financial_terms", <<>>)
        clauses_a == ClauseTypesOf(Get(clause_a, "key_clauses", <<>>))
        clauses_b == ClauseTypesOf(Get(clause_b, "key_clauses", <<>>))
    IN  <<[line |-> "CONTRACT COMPARISON REPORT"]>>
        \o comparison_table(extraction_a, clause_a, risk_a, extraction_b, clause_b, risk_b)
        \o risk_comparison(risk_score_a, risk_score_b)
        \o <<[line |-> "Document A financial terms identified", count |-> Len(financial_a),
              amounts |-> SeqMap(LAMBDA t : t.amount, Take(financial_a, ReportLimit))],
             [line |-> "Document B financial terms identified", count |-> Len(financial_b),
              amounts |-> SeqMap(LAMBDA t : t.amount, Take(financial_b, ReportLimit))]>>
        \o clause_comparison(clauses_a, clauses_b)
        \o <<[line |-> "Document A missing", clauses |-> Get(risk_a, "missing_clauses", <<>>)],
             [line |-> "Document B missing", clauses |-> Get(risk_b, "missing_clauses", <<>>)]>>
        \o comparative_recommendations(risk_score_a, risk_score_b, clauses_a \ clauses_b,
                                       clauses_b \ clauses_a, Len(financial_a), Len(financial_b))
        \o <<[line |-> "This is an automated comparison. Professional legal advice is strongly recommended."]>>

\* compare_with_b without the checks of Document B's stages
compare_with_b_unchecked(extraction_a, clause_a, risk_a, document_b_text, clock) ==
    Let(extract_document_text(document_b_text, NoToolContext, clock), LAMBDA extraction_b :
    Let(identify_key_clauses(extraction_b, clock), LAMBDA clause_b :
    Let(analyze_risks_and_obligations(clause_b, clock), LAMBDA risk_b :
        comparison_body(extraction_a, clause_a, risk_a, extraction_b, clause_b, risk_b))))

\* Analyze Document B, then the report
compare_with_b(extraction_a, clause_a, risk_a, document_b_text, clock) ==
    Let(extract_document_text(document_b_text, NoToolContext, clock), LAMBDA extraction_b :
        IF extraction_b.status = "error"
        THEN <<[line |-> "Error analyzing Document B", message |-> extraction_b.message]>>
        ELSE
    Let(identify_key_clauses(extraction_b, clock), LAMBDA clause_b :
        IF clause_b.status = "error"
        THEN <<[line |-> "Error identifying clauses in Document B", message |-> clause_b.message]>>
        ELSE
    Let(analyze_risks_and_obligations(clause_b, clock), LAMBDA risk_b :
        IF risk_b.status = "error"
        THEN <<[line |-> "Error analyzing risks in Document B", message |-> risk_b.message]>>
        ELSE comparison_body(extraction_a, clause_a, risk_a, extraction_b, clause_b, risk_b))))

compare_two_documents(document_a_text, document_b_text, clock) ==
    Let(extract_document_text(document_a_text, NoToolContext, clock), LAMBDA extraction_a :
        IF extraction_a.status = "error"
        THEN <<[line |-> "Error analyzing Document A", message |-> extraction_a.message]>>
        ELSE
    Let(identify_key_clauses(extraction_a, clock), LAMBDA clause_a :
        IF clause_a.status = "error"
        THEN <<[line |-> "Error identifying clauses in Document A", message |-> clause_a.message]>>
        ELSE
    Let(analyze_risks_and_obligations(clause_a, clock), LAMBDA risk_a :
        IF risk_a.status = "error"
        THEN <<[line |-> "Error analyzing risks in Document A", message |-> risk_a.message]>>
        ELSE compare_with_b(extraction_a, clause_a, risk_a, document_b_text, clock))))

(***************************************************************************)
(* Requests.                                                               *)
(***************************************************************************)
Fill(c, n) == [i \in 1..n |-> c]

\* what surrounds the body of a boundary text: whitespace, control
\* characters (US is both), letters
Affixes ==
    {<<>>, <<SPACE>>, <<LF, SPACE>>, <<NUL>>, <<US>>, <<SPACE, NUL>>, <<NUL, SPACE>>,
     <<LetterX>>}

\* texts whose length is around the minimum
BoundaryTexts ==
    {pre \o Fill(LetterX, n) \o post :
        pre \in Affixes, post \in Affixes, n \in (MinLength - Slack)..(MinLength + Slack)}
    \cup {Fill(NUL, MinLength), Fill(SPACE, MinLength + Slack),
          Fill(LetterX, MinLength - Slack) \o <<SPACE, NUL, SPACE>> \o Fill(LetterX, Slack)}

LibraryTexts == {LibraryCodes[i].text : i \in 1..Len(LibraryCodes)}

ShortText == Codes("Lease between Ann Lee and Bo Chen.")

PdfArtifacts == <<Codes("notes.txt"), Codes("Scan.PDF"), Codes("other.pdf")>>

PdfContext(load_raises, has_inline_data, data) ==
    [present |-> TRUE, list_raises |-> FALSE, artifacts |-> PdfArtifacts,
     load_raises |-> load_raises, has_inline_data |-> has_inline_data, data |-> data]

\* what PdfReader makes of the uploaded bytes
PdfContents ==
    {[readable |-> TRUE, pages |-> <<Codes(DocNoParty.text)>>],
     [readable |-> TRUE, pages |-> <<Codes("Lease. "), Codes(" Rent: $900. ")>>],
     [readable |-> TRUE, pages |-> <<<<>>, <<SPACE>>>>],
     [readable |-> TRUE, pages |-> <<>>],
     [readable |-> FALSE, error |-> Codes("EOF marker not found")],
     [readable |-> FALSE, error |-> Codes("Stream has ended unexpectedly")]}

ToolContexts ==
    {NoToolContext,
     [NoToolContext EXCEPT !.present = TRUE, !.list_raises = TRUE],
     [NoToolContext EXCEPT !.present = TRUE, !.artifacts = <<Codes("notes.txt")>>],
     PdfContext(TRUE, TRUE, [readable |-> TRUE, pages |-> <<Codes(DocNoParty.text)>>]),
     PdfContext(FALSE, FALSE, [readable |-> TRUE, pages |-> <<Codes(DocNoParty.text)>>])}
    \cup {PdfContext(FALSE, TRUE, data) : data \in PdfContents}

SingleRequests ==
    {[kind |-> "single", document_text |-> t, tool_context |-> NoToolContext] :
        t \in LibraryTexts \cup BoundaryTexts}
    \cup {[kind |-> "single", document_text |-> t, tool_context |-> c] :
            t \in {<<>>, ShortText, Codes(DocComplete.text)}, c \in ToolContexts}

CompareTexts == LibraryTexts \cup {<<>>, ShortText, Fill(NUL, MinLength)}

CompareRequests ==
    {[kind |-> "compare", document_a_text |-> a, document_b_text |-> b] :
        a \in CompareTexts, b \in CompareTexts}

Unset == [status |-> "unset"]

(***************************************************************************)
(* The agents.  root_agent hands a request to legal_analysis_workflow      *)
(* (extractor, identifier, risk analyzer, report generator, each calling   *)
(* its tool on the previous output_key) or to comparison_agent.            *)
(***************************************************************************)
Init ==
    /\ request \in SingleRequests \cup CompareRequests
    /\ pc = IF request.kind = "single" THEN "extract" ELSE "compare"
    /\ now = 0
    /\ extraction_result = Unset
    /\ clause_result = Unset
    /\ risk_result = Unset
    /\ final_report = <<>>
    /\ comparison_report = <<>>

\* time passes between and during the tool calls
Tick ==
    /\ now < MaxClock
    /\ pc # "done"
    /\ now' = now + 1
    /\ UNCHANGED <<request, pc, extraction_result, clause_result, risk_result,
                   final_report, comparison_report>>

extractor_agent ==
    /\ pc = "extract"
    /\ extraction_result' = extract_document_text(request.document_text,
                                                  request.tool_context, now)
    /\ pc' = "identify"
    /\ UNCHANGED <<request, now, clause_result, risk_result, final_report, comparison_report>>

identifier_agent ==
    /\ pc = "identify"
    /\ clause_result' = identify_key_clauses(extraction_result, now)
    /\ pc' = "risk"
    /\ UNCHANGED <<request, now, extraction_result, risk_result, final_report,
                   comparison_report>>

risk_agent ==
    /\ pc = "risk"
    /\ risk_result' = analyze_risks_and_obligations(clause_result, now)
    /\ pc' = "report"
    /\ UNCHANGED <<request, now, extraction_result, clause_result, final_report,
                   comparison_report>>

generator_agent ==
    /\ pc = "report"
    /\ final_report' = generate_analysis_report(risk_result, now)
    /\ pc' = "done"
    /\ UNCHANGED <<request, now, extraction_result, clause_result, risk_result,
                   comparison_report>>

comparison_agent ==
    /\ pc = "compare"
    /\ comparison_report' = compare_two_documents(request.document_a_text,
                                                  request.document_b_text, now)
    /\ pc' = "done"
    /\ UNCHANGED <<request, now, extraction_result, clause_result, risk_result, final_report>>

Next ==
    \/ Tick
    \/ extractor_agent
    \/ identifier_agent
    \/ risk_agent
    \/ generator_agent
    \/ comparison_agent

Spec == Init /\ [][Next]_vars

(***************************************************************************)
(* The risk analyzer on its own: every clause_result that                  *)
(* identify_key_clauses can return for some text, up to the bounds on the  *)
(* number of dates and of financial terms.                                 *)
(***************************************************************************)
ClauseTypes == {clause_keywords[i].type : i \in 1..Len(clause_keywords)}

\* key_clauses when exactly the types in S were found, each by its first keyword
KeyClausesFor(S) ==
    SeqMap(LAMBDA i : [type |-> clause_keywords[i].type,
                       keyword |-> clause_keywords[i].keywords[1],
                       present |-> TRUE],
           SelectSeq([i \in 1..Len(clause_keywords) |-> i],
                     LAMBDA i : clause_keywords[i].type \in S))

\* the names collected from the text, before the cap and the placeholder
PartyNames ==
    {<<>>,
     <<Codes("Acme Corp")>>,
     <<Codes("Acme Corp"), Codes("Beta LLC")>>,
     <<Codes("North Estates"), Codes("Ann Lee"), Codes("Bo Chen"), Codes("Cy Dow")>>,
     <<Codes("Not Clearly Identified Holdings")>>,
     <<Codes("Acme Corp"), Codes("Not Clearly Identified Holdings")>>}

SomeDate == [date |-> Codes("01/02/2024"), type |-> "date", context |-> "identified in document"]

SomeAmount == [amount |-> Codes("$450,000"), context |-> "financial term identified"]

ClauseResults ==
    {[status |-> "success",
      message |-> "Key clauses identified successfully",
      document_type |-> "General Contract/Agreement",
      parties |-> IF Len(names) > 0 THEN Take(names, MaxParties) ELSE <<Sentinel>>,
      dates |-> Fill(SomeDate, n_dates),
      financial_terms |-> Fill(SomeAmount, n_financial),
      key_clauses |-> KeyClausesFor(S),
      total_parties |-> Len(names),
      total_dates |-> n_dates,
      total_financial_terms |-> n_financial,
      analyzed_at |-> 0] :
        S \in SUBSET ClauseTypes, names \in PartyNames,
        n_dates \in 0..MaxDates, n_financial \in 0..MaxFinancialTerms}

InitRisk ==
    /\ request = [kind |-> "risk"]
    /\ pc = "risk"
    /\ now = 0
    /\ extraction_result = Unset
    /\ clause_result \in ClauseResults
    /\ risk_result = Unset
    /\ final_report = <<>>
    /\ comparison_report = <<>>

NextRisk == risk_agent

SpecRisk == InitRisk /\ [][NextRisk]_vars

(***************************************************************************)
(* The clause identifier as a function of the text: identify_key_clauses   *)
(* on texts made of a neutral sentence followed by up to two of the words  *)
(* the classification and the clause detection look for, in lower or      *)
(* upper case.  These texts hold nothing the party, date and amount        *)
(* patterns match.                                                         *)
(***************************************************************************)
UpperChar(c) == IF c \in 97..122 THEN c - 32 ELSE c

upper(text) == Let(text, LAMBDA t : [i \in 1..Len(t) |-> UpperChar(t[i])])

NeutralSentence == Codes(DocBare.text)

\* the words of the document-type rules, two phrases that satisfy the rules
\* with two words, and the keywords of the clause types
Vocabulary ==
    <<"employment", "employee", "service", "provider", "purchase", "sale", "lease", "rent",
      "non-disclosure", "confidentiality", "partnership", "partner", "license", "software",
      "service provider", "software license">>
    \o clause_keywords[1].keywords \o clause_keywords[2].keywords
    \o clause_keywords[3].keywords \o clause_keywords[4].keywords
    \o clause_keywords[5].keywords \o clause_keywords[6].keywords
    \o clause_keywords[7].keywords \o clause_keywords[8].keywords
    \o clause_keywords[9].keywords

\* every word in lower case, then every word in upper case
WordCodes ==
    SeqMap(LAMBDA w : lower(Codes(w)), Vocabulary)
    \o SeqMap(LAMBDA w : upper(Codes(w)), Vocabulary)

\* the sentence followed by the words of the given indices, in their order
TextOf(indices) ==
    LET RECURSIVE words(_)
        words(i) == IF i > Len(WordCodes) THEN <<>>
                    ELSE (IF i \in indices THEN <<SPACE>> \o WordCodes[i] ELSE <<>>)
                         \o words(i + 1)
    IN  NeutralSentence \o words(1)

\* the sentence alone, with one word, and with every two words
WordTexts ==
    {TextOf({i, j} \ {0}) : i \in 0..Len(WordCodes), j \in 0..Len(WordCodes)}

InitText ==
    /\ \E t \in WordTexts :
           /\ request = [kind |-> "single", document_text |-> t, tool_context |-> NoToolContext]
           /\ extraction_result = extract_document_text(t, NoToolContext, 0)
    /\ pc = "identify"
    /\ now = 0
    /\ clause_result = Unset
    /\ risk_result = Unset
    /\ final_report = <<>>
    /\ comparison_report = <<>>

NextText == identifier_agent

SpecText == InitText /\ [][NextText]_vars

(***************************************************************************)
(* Properties.                                                             *)
(***************************************************************************)
Analyzed == risk_result.status = "success"

RiskTypes == {risk_result.risks[i].type : i \in 1..Len(risk_result.risks)}

\* C1: for every combination of clause types found and of party, date and
\* financial-term counts, the risk_score returned by
\* analyze_risks_and_obligations is an integer from 0 to 10.
C1_RiskScoreInRange ==
    Analyzed => risk_result.risk_score \in 0..10

\* C1 witness: all five rules fired (3 + 3 + 2 + 2 + 3 = 13) and the score is 10.
C1_Witness ==
    /\ Analyzed
    /\ Len(risk_result.risks) = 5
    /\ risk_result.risk_score = 10

\* the sum of the weights of the claim's five conditions for a clause_result
ClaimedSum(clause) ==
    LET present == ClauseTypesOf(clause.key_clauses)
    IN  (IF {"Termination", "Liability", "Dispute Resolution"} \ present # {} THEN 3 ELSE 0)
        + (IF clause.total_parties = 0 THEN 3 ELSE 0)
        + (IF clause.total_financial_terms = 0 THEN 2 ELSE 0)
        + (IF clause.total_dates = 0 THEN 2 ELSE 0)
        + (IF "Liability" \notin present THEN 3 ELSE 0)

\* C2: the score is min(10, sum of the weights of the conditions that hold):
\* +3 a critical clause missing, +3 zero real parties, +2 zero financial
\* terms, +2 zero dates, +3 Liability missing; and with Liability missing
\* both the 'Missing Critical Clauses' and the 'No Liability Clause' findings
\* are listed.
C2_ScoreIsCappedSum ==
    Analyzed =>
        /\ risk_result.risk_score =
               (IF ClaimedSum(clause_result) < 10 THEN ClaimedSum(clause_result) ELSE 10)
        /\ ("Liability" \notin ClauseTypesOf(clause_result.key_clauses)
                => {"Missing Critical Clauses", "No Liability Clause"} \subseteq RiskTypes)

\* C3: risk_level is High exactly when the score is at least 7, Medium
\* exactly when it is 4, 5 or 6, Low exactly when it is at most 3.
C3_LevelFromScore ==
    Analyzed =>
        /\ (risk_result.risk_level = "High" <=> risk_result.risk_score >= 7)
        /\ (risk_result.risk_level = "Medium" <=> risk_result.risk_score \in 4..6)
        /\ (risk_result.risk_level = "Low" <=> risk_result.risk_score <= 3)

\* C3 witness: a result at the High threshold.
C3_Witness ==
    /\ Analyzed
    /\ risk_result.risk_score = 7
    /\ risk_result.risk_level = "High"

Extracted == request.kind = "single" /\ extraction_result.status # "unset"

\* the text PdfReader extracted from the uploaded PDF, empty when there is no
\* PDF or it could not be read
DecodedPdfText(tc) ==
    IF /\ tc.present /\ ~tc.list_raises
       /\ \E i \in 1..Len(tc.artifacts) : EndsWith(lower(tc.artifacts[i]), PdfSuffix)
       /\ ~tc.load_raises /\ tc.has_inline_data /\ tc.data.readable
    THEN extract_text_from_pdf(tc.data)
    ELSE <<>>

\* C4: when the text handed to extract_document_text has fewer than 50
\* characters once trimmed (or is empty or absent), whatever the whitespace
\* around it and whatever the PDF side of the call (no PDF, an unreadable
\* PDF, a PDF whose text is as short), the result is the error result:
\* status error, empty cleaned_text, word_count 0, char_count 0.
C4_ShortInputIsRejected ==
    (/\ Extracted
     /\ Len(strip(request.document_text)) < 50
     /\ Len(strip(DecodedPdfText(request.tool_context))) < 50)
    => /\ extraction_result.status = "error"
       /\ extraction_result.cleaned_text = <<>>
       /\ extraction_result.word_count = 0
       /\ extraction_result.char_count = 0

\* C5: when extract_document_text returned an error, identify_key_clauses
\* and analyze_risks_and_obligations return that same payload, and
\* generate_analysis_report returns one error line with its message and no
\* report section.
C5_ErrorPropagates ==
    (Extracted /\ extraction_result.status = "error") =>
        /\ pc \in {"risk", "report", "done"} => clause_result = extraction_result
        /\ pc \in {"report", "done"} => risk_result = extraction_result
        /\ pc = "done" =>
               final_report = <<[line |-> "Error", message |-> extraction_result.message]>>

\* C5 witness: the workflow ran to its end on a text that was rejected.
C5_Witness ==
    /\ Extracted
    /\ extraction_result.status = "error"
    /\ pc = "done"
    /\ Len(final_report) = 1

\* C6: when extract_document_text succeeds with cleaned text T, running it on
\* T succeeds and returns T again.
C6_NormalizerIdempotent ==
    (Extracted /\ extraction_result.status = "success") =>
        LET again == extract_document_text(extraction_result.cleaned_text, NoToolContext, now)
        IN  /\ again.status = "success"
            /\ again.cleaned_text = extraction_result.cleaned_text

\* the PDF was looked for and could not be decoded: list_artifacts or
\* load_artifact raised, or PdfReader failed on the bytes
DecodeFailed(tc) ==
    /\ tc.present
    /\ \/ tc.list_raises
       \/ /\ \E i \in 1..Len(tc.artifacts) : EndsWith(lower(tc.artifacts[i]), PdfSuffix)
          /\ tc.load_raises \/ (tc.has_inline_data /\ ~tc.data.readable)

\* C7 (decode failure): when the PDF cannot be decoded, the result is the one
\* the plain text alone gives (source_type text): no decoder error message is
\* validated, cleaned or returned as document text.
C7_DecodeFailureFallsBackToText ==
    (Extracted /\ DecodeFailed(request.tool_context)) =>
        extraction_result =
            extract_document_text(request.document_text, NoToolContext,
                                  Get(extraction_result, "extracted_at", 0))

\* the number of parties identify_key_clauses finds in a text, -1 when the
\* text does not reach it
RealParties(text) ==
    Get(identify_key_clauses(extract_document_text(text, NoToolContext, 0), 0),
        "total_parties", -1)

Compared ==
    /\ request.kind = "compare"
    /\ pc = "done"
    /\ comparison_report[1].line = "CONTRACT COMPARISON REPORT"

\* the lines of a report with one of the given names
Lines(report, names) == SelectSeq(report, LAMBDA l : l.line \in names)

\* C8: when no party is found, parties is the one placeholder and
\* total_parties is 0, and the placeholder is not counted as a party: the
\* 'Unclear Party Identification' risk is raised, no obligation entry is
\* built for the placeholder, and the comparison's 'Number of Parties' is 0.
C8_SentinelNeverCounted ==
    /\ (request.kind = "single" /\ clause_result.status = "success"
            /\ clause_result.total_parties = 0) =>
           /\ clause_result.parties = <<Sentinel>>
           /\ Analyzed =>
                  /\ "Unclear Party Identification" \in RiskTypes
                  /\ \A i \in 1..Len(risk_result.obligations) :
                         risk_result.obligations[i].party # Sentinel
    /\ Compared =>
           LET parties == Lines(comparison_report, {"Number of Parties:"})[1]
           IN  /\ RealParties(request.document_a_text) = 0 => parties.a = 0
               /\ RealParties(request.document_b_text) = 0 => parties.b = 0

\* the first line of a report with the given name
Line(report, name) == Lines(report, {name})[1]

\* the RISK COMPARISON statement of a comparison report
Verdict(report) ==
    Lines(report, {"Document A has LOWER risk", "Document B has LOWER risk",
                   "Both documents have EQUAL risk"})[1]

\* C9: for two documents that both pass the pipeline, compare(B, A) names the
\* opposite side as the lower-risk document with the same point difference (a
\* tie stays a tie), its only-B clause set is the only-A clause set of
\* compare(A, B) and conversely, the clauses-in-both set is the same, and the
\* per-side missing-critical-clause lists are swapped.
C9_CompareSymmetric ==
    Compared =>
        Let(compare_two_documents(request.document_b_text, request.document_a_text, now),
            LAMBDA swapped :
                LET v == Verdict(comparison_report)
                    w == Verdict(swapped)
                IN  /\ v.line = "Document A has LOWER risk" =>
                           /\ w.line = "Document B has LOWER risk"
                           /\ w.difference = v.difference
                           /\ w.score = v.score
                    /\ v.line = "Document B has LOWER risk" =>
                           /\ w.line = "Document A has LOWER risk"
                           /\ w.difference = v.difference
                           /\ w.score = v.score
                    /\ v.line = "Both documents have EQUAL risk" => w = v
                    /\ Line(swapped, "Clauses ONLY in Document B").clauses
                           = Line(comparison_report, "Clauses ONLY in Document A").clauses
                    /\ Line(swapped, "Clauses ONLY in Document A").clauses
                           = Line(comparison_report, "Clauses ONLY in Document B").clauses
                    /\ Line(swapped, "Clauses in BOTH documents").clauses
                           = Line(comparison_report, "Clauses in BOTH documents").clauses
                    /\ Line(swapped, "Document B missing").clauses
                           = Line(comparison_report, "Document A missing").clauses
                    /\ Line(swapped, "Document A missing").clauses
                           = Line(comparison_report, "Document B missing").clauses)

\* C9 witness: a comparison of two different documents with different scores,
\* clauses on each side only, clauses in common and a missing critical clause.
C9_Witness ==
    /\ Compared
    /\ Verdict(comparison_report).line = "Document A has LOWER risk"
    /\ Line(comparison_report, "Clauses ONLY in Document A").clauses # {}
    /\ Line(comparison_report, "Clauses ONLY in Document B").clauses # {}
    /\ Line(comparison_report, "Clauses in BOTH documents").clauses # {}
    /\ Line(comparison_report, "Document B missing").clauses # <<>>

\* C10: comparing a document that passes the pipeline with itself reports
\* equal risk scores and the EQUAL risk statement, empty only-A and only-B
\* clause sets, and the same document type, risk level, word count and
\* number of parties in both columns of the table.
C10_SelfCompareIsTie ==
    (Compared /\ request.document_a_text = request.document_b_text) =>
        /\ Verdict(comparison_report).line = "Both documents have EQUAL risk"
        /\ Line(comparison_report, "Clauses ONLY in Document A").clauses = {}
        /\ Line(comparison_report, "Clauses ONLY in Document B").clauses = {}
        /\ \A name \in {"Document Type:", "Risk Level:", "Risk Score:", "Word Count:",
                        "Number of Parties:"} :
               Line(comparison_report, name).a = Line(comparison_report, name).b

\* C10 witness: a document with clauses and a positive score compared with
\* itself.
C10_Witness ==
    /\ Compared
    /\ request.document_a_text = request.document_b_text
    /\ Line(comparison_report, "Risk Score:").a > 0
    /\ Line(comparison_report, "Clauses in BOTH documents").clauses # {}

\* the first stage of the pipeline that fails on a text, with its error
\* message: <<"extract", m>>, <<"identify", m>>, <<"risk", m>> or <<"none">>
FirstFailure(text, clock) ==
    Let(extract_document_text(text, NoToolContext, clock), LAMBDA extraction :
        IF extraction.status = "error" THEN <<"extract", extraction.message>> ELSE
    Let(identify_key_clauses(extraction, clock), LAMBDA clause :
        IF clause.status = "error" THEN <<"identify", clause.message>> ELSE
    Let(analyze_risks_and_obligations(clause, clock), LAMBDA risk :
        IF risk.status = "error" THEN <<"risk", risk.message>> ELSE <<"none">>)))

\* the error line compare_two_documents returns for a failure of a side
ErrorLine(failure, side) ==
    [line |-> CASE failure[1] = "extract" -> IF side = "A" THEN "Error analyzing Document A"
                                                           ELSE "Error analyzing Document B"
                [] failure[1] = "identify" -> IF side = "A" THEN "Error identifying clauses in Document A"
                                                            ELSE "Error identifying clauses in Document B"
                [] failure[1] = "risk" -> IF side = "A" THEN "Error analyzing risks in Document A"
                                                        ELSE "Error analyzing risks in Document B",
     message |-> failure[2]]

\* C11: compare_two_documents returns the comparison report only when the
\* three stages succeed for both documents; otherwise it returns one error
\* line with the message of the first stage that failed and the name of its
\* side, Document A's stages coming before Document B's, so that with two
\* invalid documents the error is A's.
C11_CompareStopsAtFirstError ==
    (request.kind = "compare" /\ pc = "done") =>
        Let(FirstFailure(request.document_a_text, now), LAMBDA failure_a :
        Let(FirstFailure(request.document_b_text, now), LAMBDA failure_b :
            IF failure_a[1] # "none"
            THEN comparison_report = <<ErrorLine(failure_a, "A")>>
            ELSE IF failure_b[1] # "none"
            THEN comparison_report = <<ErrorLine(failure_b, "B")>>
            ELSE /\ Len(comparison_report) > 1
                 /\ comparison_report[1].line = "CONTRACT COMPARISON REPORT"
                 /\ \A i \in 1..Len(comparison_report) :
                        "message" \notin DOMAIN comparison_report[i]))

\* C11 witness: two invalid documents failing at different stages, the error
\* returned being Document A's.
C11_Witness ==
    /\ request.kind = "compare"
    /\ pc = "done"
    /\ FirstFailure(request.document_a_text, now)[1] = "identify"
    /\ FirstFailure(request.document_b_text, now)[1] = "extract"
    /\ comparison_report[1].line = "Error identifying clauses in Document A"

\* the risks of the result with the given type
RisksOfType(type) == SelectSeq(risk_result.risks, LAMBDA r : r.type = type)

\* two identified parties, a date, a financial term, Liability and
\* Confidentiality found, Termination and Dispute Resolution not found
ScenarioResult(clause) ==
    /\ clause.total_parties = 2
    /\ Len(clause.parties) = 2
    /\ Len(clause.financial_terms) >= 1
    /\ Len(clause.dates) >= 1
    /\ {"Liability", "Confidentiality"} \subseteq ClauseTypesOf(clause.key_clauses)
    /\ {"Termination", "Dispute Resolution"} \cap ClauseTypesOf(clause.key_clauses) = {}

\* the 'Missing Critical Clauses' finding is there once, with High severity,
\* naming Termination and Dispute Resolution
NamesTerminationAndDispute ==
    /\ Len(RisksOfType("Missing Critical Clauses")) = 1
    /\ RisksOfType("Missing Critical Clauses")[1].severity = "High"
    /\ RisksOfType("Missing Critical Clauses")[1].description.clauses
           = <<"Termination", "Dispute Resolution">>

\* C12 (as stated): for two identified parties, a financial term, a date,
\* Liability and Confidentiality present and Termination and Dispute
\* Resolution absent, the score is at least 3, the level is Medium or High,
\* and the High-severity 'Missing Critical Clauses' finding names exactly
\* Termination and Dispute Resolution.
C12_ScenarioMediumOrHigh ==
    (Analyzed /\ ScenarioResult(clause_result)) =>
        /\ risk_result.risk_score >= 3
        /\ risk_result.risk_level \in {"Medium", "High"}
        /\ NamesTerminationAndDispute

\* C12 (amended): for such a result the only condition that fires is the
\* missing critical clauses, so the score is exactly 3 and the level is Low;
\* the score is 6 and the level Medium only when the 'Unclear Party
\* Identification' finding is raised too, which happens when a party's name
\* holds the placeholder words; the level is never High.  The finding names
\* exactly Termination and Dispute Resolution.
C12_ScenarioLow ==
    (Analyzed /\ ScenarioResult(clause_result)) =>
        /\ "Unclear Party Identification" \in RiskTypes
               <=> unclear_parties(clause_result.parties)
        /\ risk_result.risk_score
               = IF "Unclear Party Identification" \in RiskTypes THEN 6 ELSE 3
        /\ risk_result.risk_level
               = IF "Unclear Party Identification" \in RiskTypes THEN "Medium" ELSE "Low"
        /\ RiskTypes \subseteq {"Missing Critical Clauses", "Unclear Party Identification"}
        /\ NamesTerminationAndDispute

\* C12 witness: the scenario's result, scored 3 and Low.
C12_Witness ==
    /\ Analyzed
    /\ ScenarioResult(clause_result)
    /\ risk_result.risk_score = 3
    /\ risk_result.risk_level = "Low"
    /\ NamesTerminationAndDispute

\* the critical clauses that are not among the clauses found
critical_clauses_missing_in(clause) ==
    SelectSeq(<<"Termination", "Liability", "Dispute Resolution">>,
              LAMBDA c : \A i \in 1..Len(clause.key_clauses) : clause.key_clauses[i].type # c)

\* the advice that goes with a risk level
LevelAdvice(risk_level) ==
    CASE risk_level = "High" -> "High risk document - Strongly recommend legal review before signing"
      [] risk_level = "Medium" -> "Medium risk - Review and clarify identified concerns"
      [] risk_level = "Low" -> "Low risk - Standard review recommended"

\* C13: the recommendations of a successful result are, in this order: the
\* missing-clause remediation iff a critical clause is missing, one risk-level
\* advice that agrees with risk_level, the party advice iff fewer than 2
\* parties were identified, the financial-terms advice iff no financial term
\* was found, and the closing counsel recommendation, always last; nothing
\* else.
C13_RecommendationsInOrder ==
    Analyzed =>
        risk_result.recommendations =
            (IF critical_clauses_missing_in(clause_result) # <<>>
             THEN <<[text |-> "Consider adding the following clauses",
                     clauses |-> critical_clauses_missing_in(clause_result)]>>
             ELSE <<>>)
            \o <<Phrase(LevelAdvice(risk_result.risk_level))>>
            \o (IF clause_result.total_parties < 2
                THEN <<Phrase("Clearly identify all parties with full legal names and addresses")>>
                ELSE <<>>)
            \o (IF clause_result.total_financial_terms = 0
                THEN <<Phrase("Ensure all payment terms, amounts, and schedules are clearly specified")>>
                ELSE <<>>)
            \o <<Phrase("Always have legal counsel review contracts before execution")>>

\* C13 witness: a result with all five recommendations.
C13_Witness ==
    /\ Analyzed
    /\ Len(risk_result.recommendations) = 5
    /\ risk_result.risk_level = "Medium"

\* the workflow has produced a full report
Reported ==
    /\ request.kind = "single"
    /\ pc = "done"
    /\ risk_result.status = "success"

\* C14: within one run of the workflow the clock is read once: the
\* 'Analysis Date' of the report is the instant recorded as extracted_at,
\* whatever time passes between the stages.
C14_OneClockRead ==
    Reported =>
        Line(final_report, "Analysis Date").date = extraction_result.extracted_at

Identified == clause_result.status = "success"

\* the rules of the classification in their order: a rule matches when one
\* of its alternatives has all its words in the text
DocTypeRules ==
    <<[type |-> "Employment Agreement", alternatives |-> {{"employment"}, {"employee"}}],
      [type |-> "Service Agreement", alternatives |-> {{"service", "provider"}}],
      [type |-> "Purchase Agreement", alternatives |-> {{"purchase"}, {"sale"}}],
      [type |-> "Lease Agreement", alternatives |-> {{"lease"}, {"rent"}}],
      [type |-> "NDA (Non-Disclosure Agreement)",
       alternatives |-> {{"non-disclosure"}, {"confidentiality"}}],
      [type |-> "Partnership Agreement", alternatives |-> {{"partnership"}, {"partner"}}],
      [type |-> "Software License Agreement", alternatives |-> {{"license", "software"}}]>>

\* the words of the rules that occur in the text, ignoring case
WordsIn(text) ==
    Let(lower(text), LAMBDA low :
        {w \in DOMAIN DocTypeWords : Contains(low, DocTypeWords[w])})

\* the rules that match a text holding the given words
MatchingRules(words) ==
    {r \in 1..Len(DocTypeRules) : \E alt \in DocTypeRules[r].alternatives : alt \subseteq words}

\* C15: every successful result of identify_key_clauses carries the type of
\* the first rule that matches the text, in the order Employment, Service,
\* Purchase, Lease, NDA, Partnership, Software License, and 'General
\* Contract/Agreement' when none matches; never 'Unknown' or no type.
C15_FirstRuleWins ==
    Identified =>
        Let(MatchingRules(WordsIn(extraction_result.cleaned_text)), LAMBDA matching :
            /\ "document_type" \in DOMAIN clause_result
            /\ clause_result.document_type # "Unknown"
            /\ clause_result.document_type =
                   IF matching = {} THEN "General Contract/Agreement"
                   ELSE DocTypeRules[Min(matching)].type)

\* C15 witness: a text that two rules match, classified by the earlier one.
C15_Witness ==
    /\ Identified
    /\ MatchingRules(WordsIn(extraction_result.cleaned_text)) = {2, 6}
    /\ clause_result.document_type = "Service Agreement"

\* the entries of key_clauses for a clause type
EntriesOf(type) == SelectSeq(clause_result.key_clauses, LAMBDA c : c.type = type)

\* the keywords of clause type i that occur in the lower-case text, as their
\* positions in the type's list
Occurring(low, i) ==
    {k \in 1..Len(clause_keywords[i].keywords) : Contains(low, KeywordCodes[i][k])}

\* C16: for each of the 9 clause types, key_clauses has an entry of the type
\* iff one of its keywords occurs in the text ignoring case, never more than
\* one entry, and the entry's keyword is the first of the type's list that
\* occurs; there is no entry of another type.
C16_ClausePresence ==
    Identified =>
        /\ \A c \in 1..Len(clause_result.key_clauses) :
               clause_result.key_clauses[c].type \in ClauseTypes
        /\ Let(lower(extraction_result.cleaned_text), LAMBDA low :
               \A i \in 1..Len(clause_keywords) :
                   Let(Occurring(low, i), LAMBDA occurring :
                       LET entries == EntriesOf(clause_keywords[i].type)
                       IN  /\ Len(entries) <= 1
                           /\ Len(entries) = 1 <=> occurring # {}
                           /\ occurring # {} =>
                                  entries[1].keyword
                                      = clause_keywords[i].keywords[Min(occurring)]))

\* C16 witness: a text holding the second and the third keyword of a type
\* in upper case only, recorded with the second.
C16_Witness ==
    /\ Identified
    /\ Occurring(lower(extraction_result.cleaned_text), 1) = {2, 3}
    /\ Occurring(request.document_text, 1) = {}
    /\ clause_result.key_clauses
           = <<[type |-> "Termination", keyword |-> "terminate", present |-> TRUE]>>

\* the findings of Low severity
LowFindings == SelectSeq(risk_result.risks, LAMBDA r : r.severity = "Low")

\* C17: the findings list is never empty, and it holds a Low-severity finding
\* iff none of the five risk conditions fired (a critical clause missing, no
\* real party, no financial term, no date, Liability missing); that finding
\* is then the only one and the score is 0.
C17_LowFindingIffNoCondition ==
    Analyzed =>
        /\ Len(risk_result.risks) >= 1
        /\ LowFindings # <<>> <=> ClaimedSum(clause_result) = 0
        /\ LowFindings # <<>> =>
               /\ Len(risk_result.risks) = 1
               /\ risk_result.risk_score = 0

\* C18: when extract_document_text returns success, identify_key_clauses and
\* analyze_risks_and_obligations return success too, and the workflow ends in
\* a full report, not an error line.
C18_LengthCheckIsOnlyGate ==
    (Extracted /\ extraction_result.status = "success") =>
        /\ pc \in {"risk", "report", "done"} => clause_result.status = "success"
        /\ pc \in {"report", "done"} => risk_result.status = "success"
        /\ pc = "done" =>
               /\ final_report[1].line = "LEGAL DOCUMENT ANALYSIS REPORT"
               /\ Lines(final_report, {"Error"}) = <<>>

====
